---- MODULE Spec2Model ----
(***************************************************************************)
(* Model of apps/transcoding/task.py: TranscodingTask, the chunk           *)
(* scheduler of a transcoding task.  One task instance; its state is the   *)
(* object's fields.  query_extra_data and accept_results run inside        *)
(* `with self.lock`, so each is an acquire step followed by a body step;   *)
(* computation_failed takes no lock and is one step that may fire at any   *)
(* time.  The methods inherited from CoreTask (not part of the sources at  *)
(* hand) are modelled after the written specification and are the          *)
(* definitions whose names start with Super.                               *)
(***************************************************************************)
EXTENDS Integers, Sequences, FiniteSets, TLC

\* ---------------------------------------------------------------- bounds
MaxChunks == 2        \* largest number of subtasks requested
MaxDispatch == 4      \* largest number of dispatch records created
MaxFailures == 3      \* largest failure counter of one chunk

\* ------------------------------------------------------------- constants
MAX_SUBTASK_RETRIES_AFTER_FAIL == 2

\* SubtaskStatus values read or written by the task
Starting == "starting"
Finished == "finished"
Failure == "failure"
Timeout == "timeout"
Cancelled == "cancelled"
Restarted == "restarted"
Resent == "resent"

FailureOutcomes == {Failure, Timeout, Cancelled}

\* a subtask id that query_extra_data never returned
UnknownSubtaskId == -1

VARIABLES
    initialized,        \* initialize() has run
    subtasks_count,     \* task_definition.subtasks_count
    chunks,             \* len(self.chunks)
    subtasks_given,     \* dispatch records in insertion order; the index is the subtask id
    last_task,          \* dispatch cursor
    num_tasks_received, \* accepted results
    num_failed_subtasks,
    subtask_exceeded_max_retries_after_fail,
    number_of_failed_subtask_tries, \* dict: chunk index -> failures
    collected_files,    \* result files, in order of acceptance
    lock,               \* "free", "query" or "accept": who is inside `with self.lock`
    arg,                \* subtask id of the accept_results call holding the lock, else 0
    merging,            \* _merge_video is running
    merge_calls,        \* number of _merge_video invocations
    merge_input,        \* collected_files as handed to the merger
    ret,                \* outcome of the last completed call
    requested,          \* subtasks_count of the definition the task was built from
    builder_in,         \* TranscodingTaskBuilder: the dictionary and definition given
    builder_out         \* TranscodingTaskBuilder: the path returned

vars == <<initialized, subtasks_count, chunks, subtasks_given, last_task,
          num_tasks_received, num_failed_subtasks,
          subtask_exceeded_max_retries_after_fail,
          number_of_failed_subtask_tries, collected_files, lock, arg,
          merging, merge_calls, merge_input, ret, requested, builder_in,
          builder_out>>

\* what no method of the task writes
fixedVars == <<requested, builder_in, builder_out>>

taskState == <<subtasks_given, last_task, num_tasks_received,
               num_failed_subtasks, subtask_exceeded_max_retries_after_fail,
               number_of_failed_subtask_tries, collected_files>>

\* the builder has not been called
NoDictionary == [name |-> <<>>, container |-> <<"None">>, output_path |-> <<>>,
                 output_filename |-> <<"None">>, isfile |-> FALSE]
NoPath == <<>>

NoRet == [op |-> "none", sid |-> 0, num |-> -1, raised |-> FALSE]

\* ------------------------------------------------------- CoreTask (spec)
\* get_total_tasks(): N, the number of chunks actually produced
get_total_tasks == subtasks_count

\* create_subtask_id(): a fresh id at every dispatch
create_subtask_id == Len(subtasks_given) + 1

\* CoreTask.accept_results resolves only an outstanding dispatch
SuperAcceptResultsRaises(sid) ==
    \/ sid \notin DOMAIN subtasks_given
    \/ subtasks_given[sid].status # Starting

SuperAcceptResults(sid) ==
    [subtasks_given EXCEPT ![sid].status = Finished]

\* CoreTask.computation_failed: an outstanding dispatch takes the reported
\* outcome; anything else is ignored
SuperComputationFailed(sid, outcome) ==
    IF subtasks_given[sid].status = Starting
    THEN [subtasks_given EXCEPT ![sid].status = outcome]
    ELSE subtasks_given

SuperFailedCount(sid, outcome) ==
    IF subtasks_given[sid].status = Starting /\ outcome = Failure
    THEN num_failed_subtasks + 1
    ELSE num_failed_subtasks

SuperFinishedComputation == num_tasks_received = get_total_tasks

SuperNeedsComputation ==
    last_task # get_total_tasks \/ num_failed_subtasks > 0

\* ------------------------------------------------------ TranscodingTask
Init ==
    /\ initialized = FALSE
    /\ requested \in 1..MaxChunks
    /\ subtasks_count = requested
    /\ builder_in = NoDictionary
    /\ builder_out = NoPath
    /\ chunks = 0
    /\ subtasks_given = <<>>
    /\ last_task = 0
    /\ num_tasks_received = 0
    /\ num_failed_subtasks = 0
    /\ subtask_exceeded_max_retries_after_fail = FALSE
    /\ number_of_failed_subtask_tries = [k \in {} |-> 0]
    /\ collected_files = <<>>
    /\ lock = "free"
    /\ arg = 0
    /\ merging = FALSE
    /\ merge_calls = 0
    /\ merge_input = <<>>
    /\ ret = NoRet

\* variant: the number of subtasks is not set to the number of chunks
initialize_keeps_count ==
    /\ ~initialized
    /\ \E m \in 1..subtasks_count : chunks' = m
    /\ initialized' = TRUE
    /\ UNCHANGED <<subtasks_count, taskState, lock, arg, merging, merge_calls,
                   merge_input, ret>>
    /\ UNCHANGED fixedVars

\* initialize(): the splitter yields 1..requested chunks; N becomes their number
initialize ==
    /\ ~initialized
    /\ \E m \in 1..subtasks_count :
          /\ chunks' = m
          /\ subtasks_count' = m
    /\ initialized' = TRUE
    /\ UNCHANGED <<taskState, lock, arg, merging, merge_calls, merge_input, ret>>
    /\ UNCHANGED fixedVars

\* variant: a finished subtask is not counted as ended
_is_subtask_ended_unfinished(subtask) ==
    subtask.status \in {Failure, Timeout, Cancelled, Resent}

\* variant: a resent subtask is not counted as ended
_is_subtask_ended_no_resent(subtask) ==
    subtask.status \in {Finished, Failure, Timeout, Cancelled}

_is_subtask_ended(subtask) ==
    subtask.status \in {Finished, Failure, Timeout, Cancelled, Resent}

_all_subtasks_have_ended_status ==
    Cardinality({s \in DOMAIN subtasks_given : _is_subtask_ended(subtasks_given[s])})
        = Len(subtasks_given)

\* variant: the override is missing, CoreTask's test is used in every case
finished_computation_super == SuperFinishedComputation

finished_computation ==
    IF subtask_exceeded_max_retries_after_fail
    THEN _all_subtasks_have_ended_status
    ELSE SuperFinishedComputation

needs_computation ==
    IF subtask_exceeded_max_retries_after_fail
    THEN FALSE
    ELSE SuperNeedsComputation

\* variant: records already marked resent are picked for a retry again
IsFailedOrRestarted_or_resent(subtask) ==
    subtask.status \in {Failure, Restarted, Resent}

\* lines 210-211: the filter over subtasks_given.values()
IsFailedOrRestarted(subtask) == subtask.status \in {Failure, Restarted}

\* variant: the match with the smallest chunk index
FirstFailedSubtask_by_chunk ==
    LET ids == {s \in DOMAIN subtasks_given : IsFailedOrRestarted(subtasks_given[s])}
    IN IF ids = {} THEN 0
       ELSE CHOOSE s \in ids : \A t \in ids :
               \/ subtasks_given[s].subtask_num < subtasks_given[t].subtask_num
               \/ (subtasks_given[s].subtask_num = subtasks_given[t].subtask_num
                   /\ s <= t)

\* line 213: next(iter(...), None) - the first match in insertion order, 0 for None
FirstFailedSubtask ==
    LET ids == {s \in DOMAIN subtasks_given : IsFailedOrRestarted(subtasks_given[s])}
    IN IF ids = {} THEN 0
       ELSE CHOOSE s \in ids : \A t \in ids : s <= t

\* variant: never-dispatched chunks go first, retries only afterwards
_get_next_subtask_cursor_first ==
    LET failed_subtask == FirstFailedSubtask IN
    IF last_task < get_total_tasks
    THEN [raised |-> FALSE, num |-> last_task, given |-> subtasks_given,
          failed |-> num_failed_subtasks, last |-> last_task + 1]
    ELSE IF failed_subtask # 0
    THEN [raised |-> FALSE,
          num |-> subtasks_given[failed_subtask].subtask_num,
          given |-> [subtasks_given EXCEPT ![failed_subtask].status = Resent],
          failed |-> num_failed_subtasks - 1,
          last |-> last_task]
    ELSE [raised |-> TRUE, num |-> -1, given |-> subtasks_given,
          failed |-> num_failed_subtasks, last |-> last_task]

\* variant: the retried record is not marked resent
_get_next_subtask_not_marked ==
    LET failed_subtask == FirstFailedSubtask IN
    IF failed_subtask # 0
    THEN [raised |-> FALSE,
          num |-> subtasks_given[failed_subtask].subtask_num,
          given |-> subtasks_given,
          failed |-> num_failed_subtasks - 1,
          last |-> last_task]
    ELSE IF ~(last_task < get_total_tasks)
    THEN [raised |-> TRUE, num |-> -1, given |-> subtasks_given,
          failed |-> num_failed_subtasks, last |-> last_task]
    ELSE [raised |-> FALSE, num |-> last_task, given |-> subtasks_given,
          failed |-> num_failed_subtasks, last |-> last_task + 1]

\* variant: no assertion on the cursor
_get_next_subtask_no_assert ==
    LET failed_subtask == FirstFailedSubtask IN
    IF failed_subtask # 0
    THEN [raised |-> FALSE,
          num |-> subtasks_given[failed_subtask].subtask_num,
          given |-> [subtasks_given EXCEPT ![failed_subtask].status = Resent],
          failed |-> num_failed_subtasks - 1,
          last |-> last_task]
    ELSE [raised |-> FALSE, num |-> last_task, given |-> subtasks_given,
          failed |-> num_failed_subtasks, last |-> last_task + 1]

\* variant: the advanced cursor is returned (curr for curr - 1)
_get_next_subtask_off_by_one ==
    LET failed_subtask == FirstFailedSubtask IN
    IF failed_subtask # 0
    THEN [raised |-> FALSE,
          num |-> subtasks_given[failed_subtask].subtask_num,
          given |-> [subtasks_given EXCEPT ![failed_subtask].status = Resent],
          failed |-> num_failed_subtasks - 1,
          last |-> last_task]
    ELSE IF ~(last_task < get_total_tasks)
    THEN [raised |-> TRUE, num |-> -1, given |-> subtasks_given,
          failed |-> num_failed_subtasks, last |-> last_task]
    ELSE [raised |-> FALSE, num |-> last_task + 1, given |-> subtasks_given,
          failed |-> num_failed_subtasks, last |-> last_task + 1]

\* _get_next_subtask(): the returned number and the fields it leaves behind;
\* raised stands for the AssertionError of line 221
_get_next_subtask ==
    LET failed_subtask == FirstFailedSubtask IN
    IF failed_subtask # 0
    THEN [raised |-> FALSE,
          num |-> subtasks_given[failed_subtask].subtask_num,
          given |-> [subtasks_given EXCEPT ![failed_subtask].status = Resent],
          failed |-> num_failed_subtasks - 1,
          last |-> last_task]
    ELSE IF ~(last_task < get_total_tasks)
    THEN [raised |-> TRUE, num |-> -1, given |-> subtasks_given,
          failed |-> num_failed_subtasks, last |-> last_task]
    ELSE [raised |-> FALSE, num |-> last_task, given |-> subtasks_given,
          failed |-> num_failed_subtasks, last |-> last_task + 1]

\* query_extra_data(), line 274: entering `with self.lock`
query_extra_data_enter ==
    /\ initialized
    /\ lock = "free"
    /\ Len(subtasks_given) < MaxDispatch
    /\ lock' = "query"
    /\ UNCHANGED <<initialized, subtasks_count, chunks, taskState, arg,
                   merging, merge_calls, merge_input, ret>>
    /\ UNCHANGED fixedVars

\* query_extra_data(), lines 275-293: the body, up to leaving the lock
query_extra_data ==
    /\ lock = "query"
    /\ LET sid == create_subtask_id
           r == _get_next_subtask
       IN IF r.raised
          THEN /\ ret' = [op |-> "query_extra_data", sid |-> 0, num |-> -1,
                          raised |-> TRUE]
               /\ UNCHANGED <<subtasks_given, last_task, num_failed_subtasks>>
          ELSE /\ subtasks_given' =
                      Append(r.given, [subtask_num |-> r.num, status |-> Starting])
               /\ last_task' = r.last
               /\ num_failed_subtasks' = r.failed
               /\ ret' = [op |-> "query_extra_data", sid |-> sid, num |-> r.num,
                          raised |-> ~(r.num < chunks)]
    /\ lock' = "free"
    /\ UNCHANGED <<initialized, subtasks_count, chunks, num_tasks_received,
                   subtask_exceeded_max_retries_after_fail,
                   number_of_failed_subtask_tries, collected_files, arg,
                   merging, merge_calls, merge_input>>
    /\ UNCHANGED fixedVars

\* accept_results(subtask_id, result_files), line 151: entering `with self.lock`
accept_results_enter(subtask_id) ==
    /\ initialized
    /\ lock = "free"
    /\ lock' = "accept"
    /\ arg' = subtask_id
    /\ UNCHANGED <<initialized, subtasks_count, chunks, taskState,
                   merging, merge_calls, merge_input, ret>>
    /\ UNCHANGED fixedVars

\* variant: the list is assigned instead of extended
_collect_results_assign(results) == results

\* line 167: collected_files.extend(results); the result file of a dispatch
\* is named by its subtask id
_collect_results(results) == collected_files \o results

\* variant: merge after every accepted result
MergeCondition_any(received) == received > 0

\* line 163: the merge condition
MergeCondition(received) == received = get_total_tasks

\* variant: the result is collected and counted before CoreTask.accept_results
\* has looked the subtask up
accept_results_collect_first ==
    /\ lock = "accept"
    /\ ~merging
    /\ subtasks_given' =
          IF SuperAcceptResultsRaises(arg) THEN subtasks_given
          ELSE SuperAcceptResults(arg)
    /\ collected_files' = _collect_results(<<arg>>)
    /\ num_tasks_received' = num_tasks_received + 1
    /\ IF MergeCondition(num_tasks_received') /\ ~SuperAcceptResultsRaises(arg)
       THEN /\ merging' = TRUE
            /\ merge_calls' = merge_calls + 1
            /\ merge_input' = collected_files'
            /\ UNCHANGED <<lock, arg, ret>>
       ELSE /\ ret' = [op |-> "accept_results", sid |-> arg,
                       num |-> IF arg \in DOMAIN subtasks_given
                               THEN subtasks_given[arg].subtask_num ELSE -1,
                       raised |-> SuperAcceptResultsRaises(arg)]
            /\ lock' = "free"
            /\ arg' = 0
            /\ UNCHANGED <<merging, merge_calls, merge_input>>
    /\ UNCHANGED <<initialized, subtasks_count, chunks, last_task,
                   num_failed_subtasks,
                   subtask_exceeded_max_retries_after_fail,
                   number_of_failed_subtask_tries>>
    /\ UNCHANGED fixedVars

\* accept_results(), lines 152-164, up to the call of _merge_video or, when
\* there is none, to leaving the lock
accept_results ==
    /\ lock = "accept"
    /\ ~merging
    /\ IF SuperAcceptResultsRaises(arg)
       THEN /\ ret' = [op |-> "accept_results", sid |-> arg, num |-> -1,
                       raised |-> TRUE]
            /\ lock' = "free"
            /\ arg' = 0
            /\ UNCHANGED <<taskState, merging, merge_calls, merge_input>>
       ELSE /\ subtasks_given' = SuperAcceptResults(arg)
            /\ collected_files' = _collect_results(<<arg>>)
            /\ num_tasks_received' = num_tasks_received + 1
            /\ IF MergeCondition(num_tasks_received')
               THEN /\ merging' = TRUE
                    /\ merge_calls' = merge_calls + 1
                    /\ merge_input' = collected_files'
                    /\ UNCHANGED <<lock, arg, ret>>
               ELSE /\ ret' = [op |-> "accept_results", sid |-> arg,
                               num |-> subtasks_given[arg].subtask_num,
                               raised |-> FALSE]
                    /\ lock' = "free"
                    /\ arg' = 0
                    /\ UNCHANGED <<merging, merge_calls, merge_input>>
            /\ UNCHANGED <<last_task, num_failed_subtasks,
                           subtask_exceeded_max_retries_after_fail,
                           number_of_failed_subtask_tries>>
    /\ UNCHANGED <<initialized, subtasks_count, chunks>>
    /\ UNCHANGED fixedVars

\* _merge_video(), lines 169-204, called at line 164 inside the lock:
\* the merge completes, accept_results returns and the lock is left
_merge_video ==
    /\ merging
    /\ merging' = FALSE
    /\ lock' = "free"
    /\ arg' = 0
    /\ ret' = [op |-> "accept_results", sid |-> arg,
               num |-> subtasks_given[arg].subtask_num, raised |-> FALSE]
    /\ UNCHANGED <<initialized, subtasks_count, chunks, taskState,
                   merge_calls, merge_input>>
    /\ UNCHANGED fixedVars

\* number_of_failed_subtask_tries.get(n, 0)
Tries(n) ==
    IF n \in DOMAIN number_of_failed_subtask_tries
    THEN number_of_failed_subtask_tries[n]
    ELSE 0

_get_subtask_number_from_id(subtask_id) == subtasks_given[subtask_id].subtask_num

\* variant: a new entry starts at 1 instead of 0
_increment_number_of_subtask_fails_from_one(failed_subtask_id) ==
    LET subtask_number == _get_subtask_number_from_id(failed_subtask_id) IN
    [k \in DOMAIN number_of_failed_subtask_tries \cup {subtask_number} |->
        IF k = subtask_number
        THEN (IF k \in DOMAIN number_of_failed_subtask_tries
              THEN number_of_failed_subtask_tries[k] ELSE 1) + 1
        ELSE number_of_failed_subtask_tries[k]]

\* _increment_number_of_subtask_fails(): the dict afterwards
_increment_number_of_subtask_fails(failed_subtask_id) ==
    LET subtask_number == _get_subtask_number_from_id(failed_subtask_id) IN
    [k \in DOMAIN number_of_failed_subtask_tries \cup {subtask_number} |->
        IF k = subtask_number THEN Tries(k) + 1
        ELSE number_of_failed_subtask_tries[k]]

\* variant: one more retry is granted (<= for <)
_should_retry_failed_subtask_inclusive(tries, failed_subtask_id) ==
    tries[_get_subtask_number_from_id(failed_subtask_id)]
        <= MAX_SUBTASK_RETRIES_AFTER_FAIL

\* _should_retry_failed_subtask(), evaluated on the incremented dict
_should_retry_failed_subtask(tries, failed_subtask_id) ==
    tries[_get_subtask_number_from_id(failed_subtask_id)]
        < MAX_SUBTASK_RETRIES_AFTER_FAIL

\* variant: the reported outcome is written to the record whatever its status
computation_failed_marks(subtask_id, outcome) ==
    /\ initialized
    /\ IF subtask_id \notin DOMAIN subtasks_given
       THEN /\ ret' = [op |-> "computation_failed", sid |-> subtask_id,
                       num |-> -1, raised |-> TRUE]
            /\ UNCHANGED <<number_of_failed_subtask_tries,
                           subtask_exceeded_max_retries_after_fail,
                           subtasks_given, num_failed_subtasks>>
       ELSE /\ Tries(_get_subtask_number_from_id(subtask_id)) < MaxFailures
            /\ LET tries == _increment_number_of_subtask_fails(subtask_id) IN
               /\ number_of_failed_subtask_tries' = tries
               /\ subtask_exceeded_max_retries_after_fail' =
                     IF ~_should_retry_failed_subtask(tries, subtask_id)
                     THEN TRUE
                     ELSE subtask_exceeded_max_retries_after_fail
            /\ subtasks_given' =
                  [subtasks_given EXCEPT ![subtask_id].status = outcome]
            /\ num_failed_subtasks' = SuperFailedCount(subtask_id, outcome)
            /\ ret' = [op |-> "computation_failed", sid |-> subtask_id,
                       num |-> _get_subtask_number_from_id(subtask_id),
                       raised |-> FALSE]
    /\ UNCHANGED <<initialized, subtasks_count, chunks, last_task,
                   num_tasks_received, collected_files, lock, arg, merging,
                   merge_calls, merge_input>>
    /\ UNCHANGED fixedVars

\* variant: a failure that ends the task by the partial path merges what
\* has been collected
computation_failed_merging(subtask_id, outcome) ==
    /\ initialized
    /\ IF subtask_id \notin DOMAIN subtasks_given
       THEN /\ ret' = [op |-> "computation_failed", sid |-> subtask_id,
                       num |-> -1, raised |-> TRUE]
            /\ UNCHANGED <<number_of_failed_subtask_tries,
                           subtask_exceeded_max_retries_after_fail,
                           subtasks_given, num_failed_subtasks>>
       ELSE /\ Tries(_get_subtask_number_from_id(subtask_id)) < MaxFailures
            /\ LET tries == _increment_number_of_subtask_fails(subtask_id) IN
               /\ number_of_failed_subtask_tries' = tries
               /\ subtask_exceeded_max_retries_after_fail' =
                     IF ~_should_retry_failed_subtask(tries, subtask_id)
                     THEN TRUE
                     ELSE subtask_exceeded_max_retries_after_fail
            /\ subtasks_given' = SuperComputationFailed(subtask_id, outcome)
            /\ num_failed_subtasks' = SuperFailedCount(subtask_id, outcome)
            /\ ret' = [op |-> "computation_failed", sid |-> subtask_id,
                       num |-> _get_subtask_number_from_id(subtask_id),
                       raised |-> FALSE]
    /\ IF /\ subtask_exceeded_max_retries_after_fail'
          /\ \A s \in DOMAIN subtasks_given' : _is_subtask_ended(subtasks_given'[s])
          /\ merge_calls = 0
       THEN merge_calls' = 1 /\ merge_input' = collected_files
       ELSE UNCHANGED <<merge_calls, merge_input>>
    /\ UNCHANGED <<initialized, subtasks_count, chunks, last_task,
                   num_tasks_received, collected_files, lock, arg, merging>>
    /\ UNCHANGED fixedVars

\* computation_failed(subtask_id), lines 245-249; it takes no lock.  For an
\* id that was never issued, line 238 raises KeyError before anything is written
computation_failed(subtask_id, outcome) ==
    /\ initialized
    /\ IF subtask_id \notin DOMAIN subtasks_given
       THEN /\ ret' = [op |-> "computation_failed", sid |-> subtask_id,
                       num |-> -1, raised |-> TRUE]
            /\ UNCHANGED <<number_of_failed_subtask_tries,
                           subtask_exceeded_max_retries_after_fail,
                           subtasks_given, num_failed_subtasks>>
       ELSE /\ Tries(_get_subtask_number_from_id(subtask_id)) < MaxFailures
            /\ LET tries == _increment_number_of_subtask_fails(subtask_id) IN
               /\ number_of_failed_subtask_tries' = tries
               /\ subtask_exceeded_max_retries_after_fail' =
                     IF ~_should_retry_failed_subtask(tries, subtask_id)
                     THEN TRUE
                     ELSE subtask_exceeded_max_retries_after_fail
            /\ subtasks_given' = SuperComputationFailed(subtask_id, outcome)
            /\ num_failed_subtasks' = SuperFailedCount(subtask_id, outcome)
            /\ ret' = [op |-> "computation_failed", sid |-> subtask_id,
                       num |-> _get_subtask_number_from_id(subtask_id),
                       raised |-> FALSE]
    /\ UNCHANGED <<initialized, subtasks_count, chunks, last_task,
                   num_tasks_received, collected_files, lock, arg, merging,
                   merge_calls, merge_input>>
    /\ UNCHANGED fixedVars

\* CoreTask.restart_subtask: failed | timed_out | cancelled -> restarted
SuperRestartSubtask(subtask_id) ==
    /\ initialized
    /\ subtasks_given[subtask_id].status \in FailureOutcomes
    /\ subtasks_given' = [subtasks_given EXCEPT ![subtask_id].status = Restarted]
    /\ num_failed_subtasks' =
          IF subtasks_given[subtask_id].status = Failure
          THEN num_failed_subtasks
          ELSE num_failed_subtasks + 1
    /\ UNCHANGED <<initialized, subtasks_count, chunks, last_task,
                   num_tasks_received,
                   subtask_exceeded_max_retries_after_fail,
                   number_of_failed_subtask_tries, collected_files, lock,
                   arg, merging, merge_calls, merge_input, ret>>
    /\ UNCHANGED fixedVars

\* self.__dict__: the fields of the task object
TaskDict ==
    [subtasks_count |-> subtasks_count,
     chunks |-> chunks,
     subtasks_given |-> subtasks_given,
     last_task |-> last_task,
     num_tasks_received |-> num_tasks_received,
     num_failed_subtasks |-> num_failed_subtasks,
     subtask_exceeded_max_retries_after_fail |->
         subtask_exceeded_max_retries_after_fail,
     number_of_failed_subtask_tries |-> number_of_failed_subtask_tries,
     collected_files |-> collected_files,
     lock |-> lock]

\* Task.__getstate__: the instance dict
Super__getstate__ == TaskDict

\* __getstate__(), lines 84-87: the inherited state without the key 'lock'
__getstate__ ==
    LET state == Super__getstate__
    IN [k \in DOMAIN state \ {"lock"} |-> state[k]]

\* variant: no new lock is created on load
__setstate___without_lock(state) == state

\* __setstate__(state), lines 89-91: the inherited load, then a new Lock()
__setstate__(state) ==
    [k \in DOMAIN state \cup {"lock"} |-> IF k = "lock" THEN "free" ELSE state[k]]

\* The task is serialized and loaded again (a checkpoint and a restart): the
\* loaded object replaces the task, the calls in progress are gone with the
\* old object.  ret.sid tells which accept_results call was inside the lock
\* when the state was taken.
reload ==
    /\ initialized
    /\ LET t == __setstate__(__getstate__) IN
       /\ subtasks_count' = t.subtasks_count
       /\ chunks' = t.chunks
       /\ subtasks_given' = t.subtasks_given
       /\ last_task' = t.last_task
       /\ num_tasks_received' = t.num_tasks_received
       /\ num_failed_subtasks' = t.num_failed_subtasks
       /\ subtask_exceeded_max_retries_after_fail' =
             t.subtask_exceeded_max_retries_after_fail
       /\ number_of_failed_subtask_tries' = t.number_of_failed_subtask_tries
       /\ collected_files' = t.collected_files
       /\ lock' = IF "lock" \in DOMAIN t THEN t.lock ELSE "missing"
    /\ arg' = 0
    /\ merging' = FALSE
    /\ ret' = [op |-> "__setstate__", sid |-> arg, num |-> -1, raised |-> FALSE]
    /\ UNCHANGED <<initialized, merge_calls, merge_input>>
    /\ UNCHANGED fixedVars

Next ==
    \/ initialize
    \/ query_extra_data_enter
    \/ query_extra_data
    \/ \E sid \in DOMAIN subtasks_given \cup {UnknownSubtaskId} :
          accept_results_enter(sid)
    \/ accept_results
    \/ _merge_video
    \/ \E sid \in DOMAIN subtasks_given \cup {UnknownSubtaskId},
          outcome \in FailureOutcomes :
          computation_failed(sid, outcome)
    \/ \E sid \in DOMAIN subtasks_given : SuperRestartSubtask(sid)

Spec == Init /\ [][Next]_vars

\* ------------------------------------------------ TranscodingTaskBuilder
\* Strings are sequences of pieces; None is the one-piece string "None".
None == <<"None">>

\* the inputs of get_output_path: definition.name, options['container'],
\* options['output_path'], options['output_filename'] (None: key absent) and
\* whether definition.options.input_stream_path is a file
BuilderInputs ==
    [name : {<<"clip">>, <<"a", "-", "b">>},
     container : {None, <<"mkv">>, <<"avi">>, <<"mp4">>},
     output_path : {<<"/", "out">>, <<"out", "/">>, <<>>},
     output_filename : {None, <<"res", ".", "mkv">>, <<"/", "tmp", "/", "res">>},
     isfile : BOOLEAN]

\* _get_presets(path), lines 408-415, for an existing file
_get_presets == [container |-> <<"mp4">>]

\* str() of the presets dict, as '{}'.format renders it
StrOfDict(d) == <<"{'container': '">> \o d.container \o <<"'}">>

\* options.get('container', cls._get_presets(...)), lines 436-437: the option,
\* or else the presets dict itself; the value as format() renders it
ContainerText ==
    IF builder_in.container # None
    THEN builder_in.container
    ELSE StrOfDict(_get_presets)

\* os.path.join(a, b)
PathJoin(a, b) ==
    IF b # <<>> /\ Head(b) = "/" THEN b
    ELSE IF a = <<>> \/ a[Len(a)] = "/" THEN a \o b
    ELSE a \o <<"/">> \o b

\* get_output_path(dictionary, definition), lines 428-441; _get_presets is
\* evaluated in any case and raises when the input is no file
get_output_path ==
    /\ builder_in # NoDictionary
    /\ builder_out = NoPath
    /\ builder_out' =
          IF ~builder_in.isfile
          THEN <<"TranscodingTaskBuilderException">>
          ELSE LET alternative_name == builder_in.name \o <<".">> \o ContainerText
                   filename == IF builder_in.output_filename # None
                               THEN builder_in.output_filename
                               ELSE alternative_name
               IN PathJoin(builder_in.output_path, filename)
    /\ UNCHANGED <<initialized, subtasks_count, chunks, taskState, lock, arg,
                   merging, merge_calls, merge_input, ret, requested,
                   builder_in>>

InitBuilder ==
    /\ builder_in \in BuilderInputs
    /\ builder_out = NoPath
    /\ initialized = FALSE
    /\ requested = 1
    /\ subtasks_count = requested
    /\ chunks = 0
    /\ subtasks_given = <<>>
    /\ last_task = 0
    /\ num_tasks_received = 0
    /\ num_failed_subtasks = 0
    /\ subtask_exceeded_max_retries_after_fail = FALSE
    /\ number_of_failed_subtask_tries = [k \in {} |-> 0]
    /\ collected_files = <<>>
    /\ lock = "free"
    /\ arg = 0
    /\ merging = FALSE
    /\ merge_calls = 0
    /\ merge_input = <<>>
    /\ ret = NoRet

NextBuilder == get_output_path

SpecBuilder == InitBuilder /\ [][NextBuilder]_vars

\* the task with checkpoints
\* ------------------------------------------------ the task under a fair backend
\* The dispatch loop: it asks the task for a subtask while needs_computation()
\* holds
dispatch_loop ==
    /\ initialized
    /\ needs_computation
    /\ lock = "free"
    /\ lock' = "query"
    /\ UNCHANGED <<initialized, subtasks_count, chunks, taskState, arg,
                   merging, merge_calls, merge_input, ret>>
    /\ UNCHANGED fixedVars

\* The backend reports the one terminal outcome of an outstanding dispatch:
\* its results
backend_success(subtask_id) ==
    /\ subtasks_given[subtask_id].status = Starting
    /\ accept_results_enter(subtask_id)

\* The backend reports the one terminal outcome of an outstanding dispatch:
\* its failure; a dispatch whose results are being accepted has had its outcome
backend_failure(subtask_id) ==
    /\ subtasks_given[subtask_id].status = Starting
    /\ ~(lock = "accept" /\ arg = subtask_id)
    /\ computation_failed(subtask_id, Failure)

backend_outcome ==
    \E sid \in DOMAIN subtasks_given :
       backend_success(sid) \/ backend_failure(sid)

NextLive ==
    \/ initialize
    \/ dispatch_loop
    \/ query_extra_data
    \/ \E sid \in DOMAIN subtasks_given : backend_success(sid)
    \/ accept_results
    \/ _merge_video
    \/ \E sid \in DOMAIN subtasks_given : backend_failure(sid)

\* every thread that can take its step takes it, and an outstanding
\* dispatch gets its outcome
Fairness ==
    /\ WF_vars(initialize)
    /\ WF_vars(dispatch_loop)
    /\ WF_vars(query_extra_data)
    /\ WF_vars(accept_results)
    /\ WF_vars(_merge_video)
    /\ WF_vars(backend_outcome)

SpecLive == Init /\ [][NextLive]_vars /\ Fairness

NextPickle == Next \/ reload

SpecPickle == Init /\ [][NextPickle]_vars

TypeOK ==
    /\ initialized \in BOOLEAN
    /\ subtasks_count \in 1..MaxChunks
    /\ last_task \in 0..subtasks_count
    /\ lock \in {"free", "query", "accept"}
    /\ merge_calls \in 0..1

\* ------------------------------------------------------------ properties

\* C1 - Retry priority: a query_extra_data that finds a record with status
\* failure or restarted returns the chunk of such a record, marks it resent
\* and leaves last_task unchanged, also when last_task < N; last_task only
\* advances when no record is failure or restarted.
C1_RetryPriority ==
    [][(lock = "query" /\ lock' = "free") =>
        LET retry == {s \in DOMAIN subtasks_given :
                         subtasks_given[s].status \in {"failure", "restarted"}}
        IN /\ retry # {} =>
                /\ ~ret'.raised
                /\ last_task' = last_task
                /\ \E s \in retry :
                      /\ ret'.num = subtasks_given[s].subtask_num
                      /\ subtasks_given'[s].status = "resent"
                /\ subtasks_given'[Len(subtasks_given')].subtask_num = ret'.num
           /\ last_task' # last_task => retry = {}]_vars

\* C1 witness: a retry was handed out while never-dispatched chunks remain
C1_Witness ==
    /\ ret.op = "query_extra_data"
    /\ ~ret.raised
    /\ ret.sid = Len(subtasks_given)
    /\ last_task < subtasks_count
    /\ \E s \in 1..(ret.sid - 1) :
          /\ subtasks_given[s].subtask_num = ret.num
          /\ subtasks_given[s].status = "resent"

\* C2 - Latch refuses work (the claim as stated): once
\* subtask_exceeded_max_retries_after_fail is set, query_extra_data creates
\* no dispatch record and marks no record resent.
C2_LatchRefusesWork ==
    [][(subtask_exceeded_max_retries_after_fail /\ lock = "query" /\ lock' = "free")
          => subtasks_given' = subtasks_given]_vars

\* C3 - At-most-once merge: _merge_video is invoked at most once, and when
\* it is invoked the termination predicate holds (num_tasks_received = N,
\* or the latch is set and every dispatched chunk has ended).
C3_MergeAtMostOnce ==
    [][merge_calls' # merge_calls =>
        /\ merge_calls = 0
        /\ merge_calls' = 1
        /\ \/ num_tasks_received' = subtasks_count'
           \/ /\ subtask_exceeded_max_retries_after_fail'
              /\ \A s \in DOMAIN subtasks_given' :
                    subtasks_given'[s].status \in
                        {"finished", "failure", "timeout", "cancelled", "resent"}]_vars

\* C3 witness: the merge has been invoked for N > 1 chunks and a further
\* success notification has been processed since
C3_Witness ==
    /\ merge_calls = 1
    /\ subtasks_count > 1
    /\ ret.op = "accept_results"
    /\ ret.raised

\* C4 - Full-success termination: as soon as num_tasks_received = N the
\* merge has been triggered and finished_computation() is true (also with
\* the latch set); before, without the latch, it is false and nothing has
\* been merged.
C4_FullSuccess ==
    /\ (initialized /\ num_tasks_received = subtasks_count) =>
          (merge_calls = 1 /\ finished_computation)
    /\ (num_tasks_received < subtasks_count
          /\ ~subtask_exceeded_max_retries_after_fail) =>
          (merge_calls = 0 /\ ~finished_computation)

\* C4 witness: all N > 1 chunks accepted, with a failure on the way
C4_Witness ==
    /\ initialized
    /\ subtasks_count > 1
    /\ num_tasks_received = subtasks_count
    /\ subtask_exceeded_max_retries_after_fail

\* The status of chunk k as the registry shows it: pending before its first
\* dispatch, else the status of its latest dispatch record
ChunkStatus(k) ==
    LET ids == {s \in DOMAIN subtasks_given : subtasks_given[s].subtask_num = k}
    IN IF ids = {} THEN "pending"
       ELSE subtasks_given[CHOOSE s \in ids : \A t \in ids : t <= s].status

EndedStatuses == {"finished", "failure", "timeout", "cancelled", "resent"}

\* C5 - Partial termination fires the merge (the claim as stated): with the
\* latch set and every chunk in an ended status, the merge has been invoked
\* with the results collected so far.
C5_PartialMergeFires ==
    (/\ initialized
     /\ subtask_exceeded_max_retries_after_fail
     /\ \A k \in 0..(subtasks_count - 1) : ChunkStatus(k) \in EndedStatuses)
    => (merge_calls = 1 /\ merge_input = collected_files)

\* C5 amended - a failure notification never invokes the merge: it leaves
\* the merge state alone, and the merge has been invoked only if
\* num_tasks_received = N.
C5_NoPartialMerge ==
    /\ [](merge_calls > 0 => num_tasks_received = subtasks_count)
    /\ [][number_of_failed_subtask_tries' # number_of_failed_subtask_tries =>
            /\ merge_calls' = merge_calls
            /\ merge_input' = merge_input
            /\ merging' = merging]_vars

\* C5 witness: finished by the partial path, one result collected, no merge
C5_Witness ==
    /\ subtask_exceeded_max_retries_after_fail
    /\ finished_computation
    /\ ret.op = "computation_failed"
    /\ Len(collected_files) = 1
    /\ num_tasks_received < subtasks_count
    /\ merge_calls = 0

\* C6 - Partial termination predicate (the claim as stated): with the latch
\* set, finished_computation() is true iff every one of the N chunks is in
\* an ended status.
C6_AllChunksEnded ==
    (initialized /\ subtask_exceeded_max_retries_after_fail) =>
        (finished_computation <=>
            \A k \in 0..(subtasks_count - 1) : ChunkStatus(k) \in EndedStatuses)

\* C6 amended - with the latch set, finished_computation() is true iff
\* every chunk dispatched so far (index < last_task) is in an ended status;
\* chunks never dispatched are not looked at.
C6_AllDispatchedEnded ==
    (initialized /\ subtask_exceeded_max_retries_after_fail) =>
        (finished_computation <=>
            \A k \in 0..(last_task - 1) : ChunkStatus(k) \in EndedStatuses)

\* C6 witness: finished with the latch set while a chunk is still pending
C6_Witness ==
    /\ subtask_exceeded_max_retries_after_fail
    /\ finished_computation
    /\ last_task < subtasks_count
    /\ \E s \in DOMAIN subtasks_given : subtasks_given[s].status = "resent"

\* C7 - Idempotent success: accept_results for a subtask id whose result
\* was already accepted leaves num_tasks_received, collected_files and the
\* merge state unchanged.
C7_IdempotentSuccess ==
    [][(/\ lock = "accept" /\ ~merging /\ lock' = "free"
        /\ arg \in DOMAIN subtasks_given
        /\ subtasks_given[arg].status = "finished") =>
        /\ num_tasks_received' = num_tasks_received
        /\ collected_files' = collected_files
        /\ merge_calls' = merge_calls
        /\ merge_input' = merge_input
        /\ merging' = merging]_vars

\* C7 witness: a second delivery for an accepted subtask has been processed
C7_Witness ==
    /\ ret.op = "accept_results"
    /\ ret.raised
    /\ ret.sid \in DOMAIN subtasks_given
    /\ subtasks_given[ret.sid].status = "finished"
    /\ num_tasks_received = 1

\* C8 - query_extra_data never returns a subtask id it returned before and
\* never dispatches a chunk of which some dispatch has succeeded.
C8_NoRedispatchOfSucceeded ==
    [][Len(subtasks_given') > Len(subtasks_given) =>
        /\ ret'.sid \notin DOMAIN subtasks_given
        /\ ret'.sid = Len(subtasks_given')
        /\ \A s \in DOMAIN subtasks_given :
              subtasks_given[s].subtask_num = ret'.num =>
                  subtasks_given[s].status # "finished"]_vars

\* C8 witness: a chunk failed, was resent and succeeded, its resent dispatch
\* failed once more, and a further dispatch has been handed out since
C8_Witness ==
    \E s, t \in DOMAIN subtasks_given :
        /\ s < t
        /\ t < Len(subtasks_given)
        /\ subtasks_given[s].subtask_num = subtasks_given[t].subtask_num
        /\ subtasks_given[s].status = "resent"
        /\ subtasks_given[t].status = "finished"
        /\ Tries(subtasks_given[s].subtask_num) >= 2

\* C9 - Exhausted scheduler (the claim as stated): with no record failure
\* or restarted and last_task = N, query_extra_data returns normally and
\* changes nothing.
C9_ExhaustedReturns ==
    [][(/\ lock = "query" /\ lock' = "free"
        /\ last_task = subtasks_count
        /\ \A s \in DOMAIN subtasks_given :
              subtasks_given[s].status \notin {"failure", "restarted"})
        => (~ret'.raised /\ UNCHANGED taskState)]_vars

\* C9 amended - in that state query_extra_data raises (the assertion of
\* _get_next_subtask) and changes nothing.
C9_ExhaustedRaises ==
    [][(/\ lock = "query" /\ lock' = "free"
        /\ last_task = subtasks_count
        /\ \A s \in DOMAIN subtasks_given :
              subtasks_given[s].status \notin {"failure", "restarted"})
        => (/\ ret'.op = "query_extra_data"
            /\ ret'.raised
            /\ ret'.num = -1
            /\ UNCHANGED taskState)]_vars

\* C9 witness: query_extra_data was called on the exhausted scheduler
C9_Witness ==
    /\ ret.op = "query_extra_data"
    /\ ret.raised
    /\ last_task = subtasks_count
    /\ lock = "free"

\* C10 - Mutual exclusion (the claim as stated): a failure notification
\* never touches the retry counters while query_extra_data or
\* accept_results is inside the lock.
C10_FailureOutsideCriticalSection ==
    [][number_of_failed_subtask_tries' # number_of_failed_subtask_tries
          => lock = "free"]_vars

\* C11 - Lock not held across the merge (the claim as stated): in no state
\* is _merge_video running while the task's lock is held.
C11_MergeOutsideLock == ~(merging /\ lock # "free")

\* C12 - Fewer chunks than requested: when the splitter returned M chunks,
\* M less than the number requested, N = M after initialize, every chunk
\* index handed out is in 0..M-1 (self.chunks is never indexed beyond),
\* last_task never exceeds M, and M accepted results end the task.
C12_FewerChunks ==
    (initialized /\ chunks < requested) =>
        /\ subtasks_count = chunks
        /\ last_task <= chunks
        /\ \A s \in DOMAIN subtasks_given :
              subtasks_given[s].subtask_num \in 0..(chunks - 1)
        /\ ret.op = "query_extra_data" =>
              /\ ret.num \in -1..(chunks - 1)
              /\ ret.num >= 0 => ~ret.raised
        /\ num_tasks_received = chunks =>
              (merge_calls = 1 /\ finished_computation)

\* C12 witness: fewer chunks than requested, all of them dispatched and accepted
C12_Witness ==
    /\ initialized
    /\ chunks < requested
    /\ last_task = chunks
    /\ num_tasks_received = chunks

\* C13 - Unknown dispatch id (the claim as stated): a notification for a
\* subtask id that was never issued raises nothing and leaves the task's
\* state unchanged.
C13_UnknownIdIgnored ==
    [][(/\ ret' # ret
        /\ ret'.op \in {"computation_failed", "accept_results"}
        /\ ret'.sid = UnknownSubtaskId)
        => (~ret'.raised /\ UNCHANGED taskState)]_vars

\* C14 - Merge input order (the claim as stated): the list of result files
\* handed to the merger is ordered by chunk index.
C14_MergeInputInIndexOrder ==
    merge_calls > 0 =>
        \A i, j \in DOMAIN merge_input :
            i < j => subtasks_given[merge_input[i]].subtask_num
                        < subtasks_given[merge_input[j]].subtask_num

\* C15 - Retry rule and latch: the latch is set exactly when the counter of
\* the failed chunk, after its increment, is no longer below
\* MAX_SUBTASK_RETRIES_AFTER_FAIL; so the latch is set iff some chunk's
\* counter is >= 2, and once set it stays set.
C15_LatchIffCounterExhausted ==
    /\ [](subtask_exceeded_max_retries_after_fail <=>
            \E k \in DOMAIN number_of_failed_subtask_tries :
                number_of_failed_subtask_tries[k] >= 2)
    /\ [][subtask_exceeded_max_retries_after_fail =>
            subtask_exceeded_max_retries_after_fail']_vars

\* C15 witness: the second failure of a chunk has just set the latch
C15_Witness ==
    /\ subtask_exceeded_max_retries_after_fail
    /\ ret.op = "computation_failed"
    /\ ~ret.raised
    /\ number_of_failed_subtask_tries[ret.num] = 2
    /\ \A k \in DOMAIN number_of_failed_subtask_tries :
          k # ret.num => number_of_failed_subtask_tries[k] < 2

\* C16 - Retry counters are monotone and per index: in every step each
\* chunk's failure counter (absent = 0) stays or grows by exactly one; it
\* grows only in a computation_failed whose subtask id resolves to that
\* chunk; query_extra_data and accept_results leave all counters alone.
C16_CountersMonotone ==
    [][LET cnt(f, k) == IF k \in DOMAIN f THEN f[k] ELSE 0
           old == number_of_failed_subtask_tries
           new == number_of_failed_subtask_tries'
       IN /\ \A k \in DOMAIN old \cup DOMAIN new :
                /\ cnt(new, k) \in {cnt(old, k), cnt(old, k) + 1}
                /\ cnt(new, k) # cnt(old, k) =>
                      /\ ret'.op = "computation_failed"
                      /\ ~ret'.raised
                      /\ ret'.sid \in DOMAIN subtasks_given
                      /\ subtasks_given[ret'.sid].subtask_num = k
          /\ lock' # lock => new = old]_vars

\* C16 witness: two chunks with different failure counts
C16_Witness ==
    /\ DOMAIN number_of_failed_subtask_tries = {0, 1}
    /\ number_of_failed_subtask_tries[0] = 1
    /\ number_of_failed_subtask_tries[1] = 2
    /\ num_tasks_received > 0

\* C17 - Registry shape (the claim as stated): after initialize there is
\* never more than one descriptor for a chunk index; a retry adds no second
\* record for the index.
C17_OneDescriptorPerIndex ==
    initialized =>
        \A k \in 0..(subtasks_count - 1) :
            Cardinality({s \in DOMAIN subtasks_given :
                            subtasks_given[s].subtask_num = k}) <= 1

\* C17 amended - self.chunks has exactly N entries, every record's index is
\* in 0..N-1, an index has a record iff it is below last_task (none right
\* after initialize), and the registry holds one record per dispatch: a
\* retry marks the old record resent and appends a second record for the
\* same index.
C17_OneRecordPerDispatch ==
    /\ [](initialized =>
            /\ chunks = subtasks_count
            /\ \A s \in DOMAIN subtasks_given :
                  subtasks_given[s].subtask_num \in 0..(chunks - 1)
            /\ \A k \in 0..(chunks - 1) :
                  k < last_task <=>
                      \E s \in DOMAIN subtasks_given :
                          subtasks_given[s].subtask_num = k)
    /\ [][Len(subtasks_given') # Len(subtasks_given) =>
            /\ Len(subtasks_given') = Len(subtasks_given) + 1
            /\ \A s \in DOMAIN subtasks_given :
                  subtasks_given'[s].subtask_num = subtasks_given[s].subtask_num
            /\ last_task' = last_task =>
                  \E s \in DOMAIN subtasks_given :
                      /\ subtasks_given[s].subtask_num =
                            subtasks_given'[Len(subtasks_given')].subtask_num
                      /\ subtasks_given[s].status # "resent"
                      /\ subtasks_given'[s].status = "resent"]_vars

\* C17 witness: a chunk with two records while another chunk is still pending
C17_Witness ==
    /\ last_task < subtasks_count
    /\ \E s, t \in DOMAIN subtasks_given :
          /\ s < t
          /\ subtasks_given[s].subtask_num = subtasks_given[t].subtask_num
          /\ subtasks_given[s].status = "resent"

C19_OutputPath ==
    (builder_out # NoPath /\ builder_in.isfile) =>
        LET container == IF builder_in.container # <<"None">>
                         THEN builder_in.container
                         ELSE <<"mp4">>
            filename == IF builder_in.output_filename # <<"None">>
                        THEN builder_in.output_filename
                        ELSE builder_in.name \o <<".">> \o container
        IN builder_out = PathJoin(builder_in.output_path, filename)

Outstanding(k) ==
    {s \in DOMAIN subtasks_given :
        /\ subtasks_given[s].subtask_num = k
        /\ subtasks_given[s].status = "starting"}

\* C21 - No double dispatch, no lost chunk (the claim as stated): every chunk
\* index has at most one outstanding dispatch and is pending, outstanding,
\* succeeded or awaiting its retry (failure or restarted), unless the latch
\* subtask_exceeded_max_retries_after_fail is set; the cursor skips no index.
C21_NoLostChunk ==
    initialized =>
        \A k \in 0..(subtasks_count - 1) :
           /\ Cardinality(Outstanding(k)) <= 1
           /\ (ChunkStatus(k) = "pending") <=> (k >= last_task)
           /\ \/ ChunkStatus(k) \in
                    {"pending", "starting", "finished", "failure", "restarted"}
              \/ subtask_exceeded_max_retries_after_fail

\* C21 amended - every chunk index has at most one outstanding dispatch; the
\* indices without a record are exactly those at or above the cursor
\* last_task; every earlier record of a chunk is resent and its latest one is
\* outstanding, succeeded, awaiting its retry (failure or restarted) or ended
\* as timeout or cancelled, which _get_next_subtask does not retry until the
\* subtask is restarted.
C21_NoDoubleDispatch ==
    initialized =>
        \A k \in 0..(subtasks_count - 1) :
           /\ Cardinality(Outstanding(k)) <= 1
           /\ (ChunkStatus(k) = "pending") <=> (k >= last_task)
           /\ ChunkStatus(k) \in
                 {"pending", "starting", "finished", "failure", "restarted",
                  "timeout", "cancelled"}
           /\ \A s, t \in DOMAIN subtasks_given :
                 (/\ subtasks_given[s].subtask_num = k
                  /\ subtasks_given[t].subtask_num = k
                  /\ s < t) => subtasks_given[s].status = "resent"

\* C21 witness: both chunks were dispatched, one was retried and its retry is
\* the only outstanding dispatch of its index, the other ended as timeout
\* with the latch unset
C21_Witness ==
    /\ initialized
    /\ subtasks_count = 2
    /\ last_task = 2
    /\ ~subtask_exceeded_max_retries_after_fail
    /\ \E k \in 0..1 :
          /\ Cardinality(Outstanding(k)) = 1
          /\ \E s \in DOMAIN subtasks_given :
                /\ subtasks_given[s].subtask_num = k
                /\ subtasks_given[s].status = "resent"
          /\ ChunkStatus(1 - k) = "timeout"

\* C22 - Late notification after merge: once _merge_video has been called,
\* no step - an accept_results or computation_failed for any subtask id, a
\* success for a resent record included - changes num_tasks_received,
\* collected_files, the status of any record, or calls the merge again.
C22_LateNotificationNoOp ==
    [][merge_calls >= 1 =>
          /\ num_tasks_received' = num_tasks_received
          /\ collected_files' = collected_files
          /\ subtasks_given' = subtasks_given
          /\ merge_calls' = merge_calls
          /\ merge_input' = merge_input]_vars

\* C22 witness: the merge has run and returned, and afterwards a success was
\* reported for a record that a retry had superseded
C22_Witness ==
    /\ merge_calls = 1
    /\ ~merging
    /\ ret.op = "accept_results"
    /\ ret.raised
    /\ ret.sid \in DOMAIN subtasks_given
    /\ subtasks_given[ret.sid].status = "resent"
    /\ num_tasks_received = subtasks_count
    /\ Len(collected_files) = subtasks_count

\* The chunk indices that have a finished dispatch record
SucceededChunks ==
    {subtasks_given[s].subtask_num :
        s \in {t \in DOMAIN subtasks_given : subtasks_given[t].status = "finished"}}

\* C23 - Success accounting is per chunk: num_tasks_received is the number
\* of distinct chunk indices with a finished dispatch, collected_files holds
\* one result per counted success and at most one per chunk index, so
\* num_tasks_received = N means that all N chunks succeeded.
C23_SuccessPerChunk ==
    initialized =>
        /\ num_tasks_received = Cardinality(SucceededChunks)
        /\ Len(collected_files) = num_tasks_received
        /\ \A i, j \in DOMAIN collected_files :
              /\ collected_files[i] \in DOMAIN subtasks_given
              /\ subtasks_given[collected_files[i]].status = "finished"
              /\ (i # j =>
                    subtasks_given[collected_files[i]].subtask_num
                       # subtasks_given[collected_files[j]].subtask_num)
        /\ (num_tasks_received = subtasks_count =>
               SucceededChunks = 0..(subtasks_count - 1))

\* C23 witness: a chunk's retry succeeded and was counted once, and the
\* success reported afterwards for the resent dispatch it superseded was
\* turned away, with another chunk still not succeeded
C23_Witness ==
    /\ ret.op = "accept_results"
    /\ ret.raised
    /\ ret.sid \in DOMAIN subtasks_given
    /\ subtasks_given[ret.sid].status = "resent"
    /\ subtasks_given[ret.sid].subtask_num \in SucceededChunks
    /\ num_tasks_received = 1
    /\ subtasks_count = 2
    /\ Len(collected_files) = 1

\* C24 - Eventual termination: when the dispatch loop asks for subtasks while
\* needs_computation() holds and every dispatch gets exactly one outcome,
\* success or failure, then under weak fairness finished_computation()
\* becomes true and stays true, with either all N chunks succeeded or the
\* latch set and every dispatched record ended.
C24_EventuallyFinished ==
    <>[](/\ initialized
         /\ finished_computation
         /\ \/ SucceededChunks = 0..(subtasks_count - 1)
            \/ /\ subtask_exceeded_max_retries_after_fail
               /\ \A s \in DOMAIN subtasks_given :
                     subtasks_given[s].status \in EndedStatuses)

\* C24 witness: the task has finished by the partial path - a chunk failed
\* twice, the latch is set, every record has ended, a chunk has not succeeded
\* and the dispatch loop has nothing more to ask for
C24_Witness ==
    /\ initialized
    /\ finished_computation
    /\ ~needs_computation
    /\ subtask_exceeded_max_retries_after_fail
    /\ num_tasks_received < subtasks_count
    /\ lock = "free"
    /\ \E k \in DOMAIN number_of_failed_subtask_tries :
          number_of_failed_subtask_tries[k] = MAX_SUBTASK_RETRIES_AFTER_FAIL
    /\ \A s \in DOMAIN subtasks_given :
          subtasks_given[s].status \in EndedStatuses

====
